---- MODULE Spec2Model ----
(***************************************************************************)
(* Model of the groundwater-signal code of river-dl:                       *)
(*   river_dl/gw_utils.py        amp_phi, annual_temp_stats                *)
(*   river_dl/loss_functions.py  rmse, masked statistics, composite loss   *)
(*                                                                         *)
(* Number representation.  TLA+ has integers only, so every real of the    *)
(* program is carried exactly in a unit that keeps it an integer:          *)
(*   - a float is a record [nan, v]; nan = TRUE is numpy's NaN;            *)
(*   - an amplitude sqrt(a^2+b^2) is carried by its square  v = a^2+b^2;   *)
(*   - a phase is carried in tenths of a degree (2*pi = 3600);             *)
(*   - a phase shift in days is carried in 1/3600 day:                     *)
(*       (phi_w - phi_a) * 365 / (2*pi)  =  ((dd_w - dd_a) * 365) / 3600;  *)
(*   - an amplitude ratio is a record [nan, n, d] standing for             *)
(*     sqrt(n / d); d = 0 with n > 0 is +inf.                              *)
(* A temperature series is abstracted by the number of its samples per     *)
(* temperature value (a few representative values on both sides of every   *)
(* threshold of the code), the number of NaN samples, and the solution     *)
(* (sin/cos coefficients and confidence half-width) that the least-squares *)
(* regression of statsmodels finds on the samples amp_phi retains.         *)
(***************************************************************************)
EXTENDS Integers, Sequences, FiniteSets, TLC

(***************************************************************************)
(* Bounds of the model                                                     *)
(***************************************************************************)
NumSegs == 2

(***************************************************************************)
(* Program constants                                                       *)
(***************************************************************************)
MinSamples == 365
DaysPerYear == 365
WaterMin == 1
WaterMax == 45
ObsMax == 60
ArMaxNum == 11
ArMaxDen == 10
DelPhiMin == -10
CircleDD == 3600
ThreeHalfPiDD == 2700

(***************************************************************************)
(* Floats                                                                  *)
(***************************************************************************)
NaN == [nan |-> TRUE, v |-> 0]
Num(x) == [nan |-> FALSE, v |-> x]
RatioNaN == [nan |-> TRUE, n |-> 0, d |-> 1]

Abs(x) == IF x < 0 THEN 0 - x ELSE x
MinOf(S) == CHOOSE x \in S : \A y \in S : x <= y
MaxOf(S) == CHOOSE x \in S : \A y \in S : y <= x

\* math.atan in tenths of a degree, AtanTab[p+1][q] = atan(p/q), 0<=p<=12, 1<=q<=12
AtanTab ==
  << <<  0,   0,   0,   0,   0,   0,   0,   0,   0,   0,   0,   0>>,
     <<450, 266, 184, 140, 113,  95,  81,  71,  63,  57,  52,  48>>,
     <<634, 450, 337, 266, 218, 184, 159, 140, 125, 113, 103,  95>>,
     <<716, 563, 450, 369, 310, 266, 232, 206, 184, 167, 153, 140>>,
     <<760, 634, 531, 450, 387, 337, 297, 266, 240, 218, 200, 184>>,
     <<787, 682, 590, 513, 450, 398, 355, 320, 291, 266, 244, 226>>,
     <<805, 716, 634, 563, 502, 450, 406, 369, 337, 310, 286, 266>>,
     <<819, 741, 668, 603, 545, 494, 450, 412, 379, 350, 325, 303>>,
     <<829, 760, 694, 634, 580, 531, 488, 450, 416, 387, 360, 337>>,
     <<837, 775, 716, 660, 609, 563, 521, 484, 450, 420, 393, 369>>,
     <<843, 787, 733, 682, 634, 590, 550, 513, 480, 450, 423, 398>>,
     <<848, 797, 747, 700, 656, 614, 575, 540, 507, 477, 450, 425>>,
     <<852, 805, 760, 716, 674, 634, 597, 563, 531, 502, 475, 450>> >>

RECURSIVE GCD(_, _)
GCD(x, y) == IF y = 0 THEN x ELSE GCD(y, x % y)

\* variant: an arctangent that is 0, not NaN, at 0/0 (as atan2(0, 0))
Atan_ZeroAtOrigin(num, den) ==
  IF den = 0
    THEN IF num = 0 THEN Num(0) ELSE IF num > 0 THEN Num(900) ELSE Num(-900)
    ELSE LET g == GCD(Abs(num), Abs(den))
             t == AtanTab[(Abs(num) \div g) + 1][Abs(den) \div g]
         IN IF (num < 0) # (den < 0) THEN Num(0 - t) ELSE Num(t)

\* math.atan(num/den) on floats: x/0 is +-inf (atan = +-pi/2), 0/0 is NaN
Atan(num, den) ==
  IF den = 0
    THEN IF num = 0 THEN NaN ELSE IF num > 0 THEN Num(900) ELSE Num(-900)
    ELSE LET g == GCD(Abs(num), Abs(den))
             t == AtanTab[(Abs(num) \div g) + 1][Abs(den) \div g]
         IN IF (num < 0) # (den < 0) THEN Num(0 - t) ELSE Num(t)

\* phi = 3*pi/2 - atan(b/a)
Phase(a, b) ==
  IF Atan(b, a).nan THEN NaN ELSE Num(ThreeHalfPiDD - Atan(b, a).v)

(***************************************************************************)
(* Temperature series and the regression                                   *)
(***************************************************************************)
Temps == {0, 1, 20, 45, 46, 60, 61}

Counts(f) == [t \in Temps |-> IF t \in DOMAIN f THEN f[t] ELSE 0]

RECURSIVE SumOver(_, _)
SumOver(f, S) ==
  IF S = {} THEN 0
  ELSE LET t == CHOOSE x \in S : TRUE IN f[t] + SumOver(f, S \ {t})

\* np.sum(np.isfinite(series))
NumFinite(cnt) == SumOver(cnt, Temps)

\* variant: the water band without its lower limit
WaterBand_NoLowerLimit(cnt) == [t \in Temps |-> IF t <= WaterMax THEN cnt[t] ELSE 0]

\* temp = [x if x >=1 and x<=45 else np.nan for x in temp]
WaterBand(cnt) == [t \in Temps |-> IF t >= WaterMin /\ t <= WaterMax THEN cnt[t] ELSE 0]

\* waterDF.loc[(tave_water<1)|(tave_water>60)] = nan ; dropna
ObsBand(cnt) == [t \in Temps |-> IF t < WaterMin \/ t > ObsMax THEN 0 ELSE cnt[t]]

AllMissing ==
  [amp |-> NaN, phi |-> NaN, amp_low |-> NaN, amp_high |-> NaN,
   phi_low |-> NaN, phi_high |-> NaN]

\* np.min / np.max of a list of floats: NaN if any element is NaN
NpMin(S) == IF \E x \in S : x.nan THEN NaN ELSE Num(MinOf({x.v : x \in S}))
NpMax(S) == IF \E x \in S : x.nan THEN NaN ELSE Num(MaxOf({x.v : x \in S}))

\* sm.OLS(temp, X, missing='drop').fit(): raises when no sample is left,
\* otherwise params (a, b) and conf_int rows (a-hw, a+hw), (b-hw, b+hw)
OLS(s, cnt) ==
  IF NumFinite(cnt) = 0
    THEN [raised |-> TRUE, a |-> 0, b |-> 0, hw |-> 0]
    ELSE [raised |-> FALSE, a |-> s.ols[1], b |-> s.ols[2], hw |-> s.hw]

\* body of the try block of amp_phi
FitOf(r) ==
  LET ciA == {r.a - r.hw, r.a + r.hw}
      ciB == {r.b - r.hw, r.b + r.hw}
      sq(x) == x * x
      phiRange == {Phase(y, x) : x \in ciB, y \in ciA}
  IN [amp      |-> Num(sq(r.a) + sq(r.b)),
      amp_low  |-> Num(sq(MinOf({Abs(x) : x \in ciA})) + sq(MinOf({Abs(x) : x \in ciB}))),
      amp_high |-> Num(sq(MaxOf({Abs(x) : x \in ciA})) + sq(MaxOf({Abs(x) : x \in ciB}))),
      phi      |-> Phase(r.a, r.b),
      phi_low  |-> NpMin(phiRange),
      phi_high |-> NpMax(phiRange)]

\* variant: amp_phi without the try/except around the regression
amp_phi_NoExcept(s, isWater) ==
  LET temp == IF isWater THEN WaterBand(s.cnt) ELSE s.cnt
      r == OLS(s, temp)
  IN IF r.raised
       THEN [raised |-> TRUE, fit |-> AllMissing]
       ELSE [raised |-> FALSE, fit |-> FitOf(r)]

\* amp_phi(Date, temp, isWater): the result, and whether an error leaves the call
amp_phi(s, isWater) ==
  LET temp == IF isWater THEN WaterBand(s.cnt) ELSE s.cnt
      r == OLS(s, temp)
  IN IF r.raised
       THEN [raised |-> FALSE, fit |-> AllMissing]
       ELSE [raised |-> FALSE, fit |-> FitOf(r)]

(***************************************************************************)
(* Input datasets                                                          *)
(***************************************************************************)
Series(ols, cnt, nnan) == [ols |-> ols, hw |-> 1, cnt |-> Counts(cnt), nnan |-> nnan]

Full == (20 :> 366)

AirMain == Series(<<4, 4>>, (0 :> 100) @@ (20 :> 266), 0)
AirFlat == Series(<<0, 0>>, (20 :> 366), 0)
AirNone == Series(<<4, 4>>, (20 :> 0), 366)

PbmSet1 == {Series(<<3, 4>>, Full, 0), Series(<<7, 0>>, Full, 0)}
PbmSet2 == {Series(<<2, 3>>, Full, 0), Series(<<3, 4>>, (0 :> 366), 0)}

ObsCoefs == {<<3, 4>>, <<4, 4>>, <<2, 3>>, <<6, 0>>, <<7, 0>>, <<6, 8>>, <<0, 0>>}
ObsCounts ==
  { (20 :> 365),
    (20 :> 365) @@ (61 :> 1),
    (20 :> 364) @@ (61 :> 2),
    (20 :> 364) @@ (60 :> 1) @@ (0 :> 1),
    (1 :> 183) @@ (45 :> 183),
    (46 :> 366) }
ObsSet1 ==
  {Series(c, Full, 0) : c \in ObsCoefs}
  \cup {Series(<<3, 4>>, c, 10) : c \in ObsCounts}
  \cup {Series(<<3, 4>>, (20 :> 100), 266)}
ObsSet2 ==
  {Series(c, Full, 0) : c \in {<<3, 4>>, <<7, 0>>, <<2, 3>>}}
  \cup {Series(<<3, 4>>, (46 :> 366), 0)}
ObsSet3 == {Series(<<3, 4>>, Full, 0), Series(<<0, 0>>, Full, 0), Series(<<3, 4>>, (20 :> 365), 0)}

Seg(a, p, o) == [air |-> a, pbm |-> p, obs |-> o]

SegDataSet ==
  {Seg(AirMain, p, o) : p \in PbmSet1, o \in ObsSet1}
  \cup {Seg(AirMain, p, o) : p \in PbmSet2, o \in ObsSet2}
  \cup {Seg(a, Series(<<3, 4>>, Full, 0), o) : a \in {AirFlat, AirNone}, o \in ObsSet3}

(***************************************************************************)
(* State                                                                   *)
(***************************************************************************)
VARIABLES
  thisData,      \* the input dataset: one triple of series per segment
  pc,            \* position in annual_temp_stats
  air,           \* air_amp, air_phi, air_amp_low, ... : one fit per segment
  water_pbm,     \* water_amp_pbm, water_phi_pbm, ...
  water_obs,     \* water_amp_obs, water_phi_obs, ...
  nRegr,         \* per segment: samples the observed-water regression used (-1: not attempted)
  Ar_obs, delPhi_obs,
  Ar_low_obs, Ar_high_obs, delPhi_low_obs, delPhi_high_obs,
  Ar_pbm, delPhi_pbm,
  tempDF         \* the returned table

VARIABLES
  y_true, y_pred,  \* arguments of rmse and of the masked statistics (flattened tensors)
  vres             \* what the last call on them returned

VARIABLES
  data,          \* target tensor [segment][timestep][channel] given to the loss
  pred,          \* prediction tensor [segment][timestep][variable]
  lres           \* what the last call of a loss function returned

statsVars == <<thisData, pc, air, water_pbm, water_obs, nRegr, Ar_obs, delPhi_obs,
               Ar_low_obs, Ar_high_obs, delPhi_low_obs, delPhi_high_obs,
               Ar_pbm, delPhi_pbm, tempDF>>
vecVars == <<y_true, y_pred, vres>>
lossVars == <<data, pred, lres>>
vars == <<statsVars, vecVars, lossVars>>

NoCall == [op |-> "none"]
VecIdle == y_true = <<>> /\ y_pred = <<>> /\ vres = NoCall
LossIdle == data = <<>> /\ pred = <<>> /\ lres = NoCall

Segs == 1..NumSegs

(***************************************************************************)
(* annual_temp_stats                                                       *)
(***************************************************************************)
\* lines 129-171: the observed-water fit with its data-sufficiency checks
ObsFit(s) ==
  IF NumFinite(s.cnt) > MinSamples
    THEN LET waterDF == ObsBand(s.cnt)
         IN IF NumFinite(waterDF) < MinSamples
              THEN [raised |-> FALSE, fit |-> AllMissing, n |-> -1]
              ELSE IF NumFinite(waterDF) >= MinSamples
                     THEN [raised |-> amp_phi([s EXCEPT !.cnt = waterDF], TRUE).raised,
                           fit |-> amp_phi([s EXCEPT !.cnt = waterDF], TRUE).fit,
                           n |-> NumFinite(WaterBand(waterDF))]
                     ELSE [raised |-> FALSE, fit |-> AllMissing, n |-> -1]
    ELSE [raised |-> FALSE, fit |-> AllMissing, n |-> -1]

\* x / y on floats carried as squares
Div(x, y) ==
  IF x.nan \/ y.nan THEN RatioNaN
  ELSE IF y.v = 0 /\ x.v = 0 THEN RatioNaN
  ELSE [nan |-> FALSE, n |-> x.v, d |-> y.v]

\* (x - y) * 365 / (2*pi), in 1/3600 day
Shift(x, y) ==
  IF x.nan \/ y.nan THEN NaN ELSE Num((x.v - y.v) * DaysPerYear)

\* x <= 1.1 for a ratio
LeqArMax(x) ==
  /\ ~x.nan
  /\ x.d > 0
  /\ ArMaxDen * ArMaxDen * x.n <= ArMaxNum * ArMaxNum * x.d

\* variant: no 10-day buffer, x >= 0
GeqDelPhiMin_NoBuffer(x) == ~x.nan /\ x.v >= 0

\* x >= -10 for a shift in days
GeqDelPhiMin(x) == ~x.nan /\ x.v >= DelPhiMin * CircleDD

Init ==
  /\ thisData \in [Segs -> SegDataSet]
  /\ pc = "fit"
  /\ air = <<>>
  /\ water_pbm = <<>>
  /\ water_obs = <<>>
  /\ nRegr = <<>>
  /\ Ar_obs = <<>>
  /\ delPhi_obs = <<>>
  /\ Ar_low_obs = <<>>
  /\ Ar_high_obs = <<>>
  /\ delPhi_low_obs = <<>>
  /\ delPhi_high_obs = <<>>
  /\ Ar_pbm = <<>>
  /\ delPhi_pbm = <<>>
  /\ tempDF = <<>>
  /\ VecIdle
  /\ LossIdle

\* variant: the 1-60 degree filter of line 132 written into the dataset itself
FitSegment_InPlace ==
  /\ pc = "fit"
  /\ Len(air) < NumSegs
  /\ LET i == Len(air) + 1
         a == amp_phi(thisData[i].air, FALSE)
         p == amp_phi(thisData[i].pbm, TRUE)
         o == ObsFit(thisData[i].obs)
     IN /\ IF a.raised \/ p.raised \/ o.raised
             THEN /\ pc' = "raised"
                  /\ UNCHANGED <<air, water_pbm, water_obs, nRegr>>
             ELSE /\ air' = Append(air, a.fit)
                  /\ water_pbm' = Append(water_pbm, p.fit)
                  /\ water_obs' = Append(water_obs, o.fit)
                  /\ nRegr' = Append(nRegr, o.n)
                  /\ pc' = IF i = NumSegs THEN "derive" ELSE "fit"
        /\ thisData' = [thisData EXCEPT ![i].obs.cnt =
                          IF NumFinite(thisData[i].obs.cnt) > MinSamples
                            THEN ObsBand(thisData[i].obs.cnt) ELSE thisData[i].obs.cnt]
  /\ UNCHANGED <<vecVars, lossVars>>
  /\ UNCHANGED <<Ar_obs, delPhi_obs, Ar_low_obs, Ar_high_obs,
                 delPhi_low_obs, delPhi_high_obs, Ar_pbm, delPhi_pbm, tempDF>>

\* one iteration of the loop over segments, lines 107-177
FitSegment ==
  /\ pc = "fit"
  /\ Len(air) < NumSegs
  /\ LET i == Len(air) + 1
         a == amp_phi(thisData[i].air, FALSE)
         p == amp_phi(thisData[i].pbm, TRUE)
         o == ObsFit(thisData[i].obs)
     IN IF a.raised \/ p.raised \/ o.raised
          THEN /\ pc' = "raised"
               /\ UNCHANGED <<air, water_pbm, water_obs, nRegr>>
          ELSE /\ air' = Append(air, a.fit)
               /\ water_pbm' = Append(water_pbm, p.fit)
               /\ water_obs' = Append(water_obs, o.fit)
               /\ nRegr' = Append(nRegr, o.n)
               /\ pc' = IF i = NumSegs THEN "derive" ELSE "fit"
  /\ UNCHANGED <<vecVars, lossVars>>
  /\ UNCHANGED <<thisData, Ar_obs, delPhi_obs, Ar_low_obs, Ar_high_obs,
                 delPhi_low_obs, delPhi_high_obs, Ar_pbm, delPhi_pbm, tempDF>>

\* variant: every segment compared with the air fit of the first segment
Derive_FirstAir ==
  /\ pc = "derive"
  /\ Ar_obs' = [x \in Segs |-> Div(water_obs[x].amp, air[1].amp)]
  /\ delPhi_obs' = [x \in Segs |-> Shift(water_obs[x].phi, air[1].phi)]
  /\ Ar_low_obs' = [x \in Segs |-> Div(water_obs[x].amp_low, air[1].amp_high)]
  /\ Ar_high_obs' = [x \in Segs |-> Div(water_obs[x].amp_high, air[1].amp_low)]
  /\ delPhi_low_obs' = [x \in Segs |-> Shift(water_obs[x].phi_low, air[1].phi_high)]
  /\ delPhi_high_obs' = [x \in Segs |-> Shift(water_obs[x].phi_high, air[1].phi_low)]
  /\ pc' = "rule1"
  /\ UNCHANGED <<vecVars, lossVars>>
  /\ UNCHANGED <<thisData, air, water_pbm, water_obs, nRegr, Ar_pbm, delPhi_pbm, tempDF>>

\* lines 179-186
Derive ==
  /\ pc = "derive"
  /\ Ar_obs' = [x \in Segs |-> Div(water_obs[x].amp, air[x].amp)]
  /\ delPhi_obs' = [x \in Segs |-> Shift(water_obs[x].phi, air[x].phi)]
  /\ Ar_low_obs' = [x \in Segs |-> Div(water_obs[x].amp_low, air[x].amp_high)]
  /\ Ar_high_obs' = [x \in Segs |-> Div(water_obs[x].amp_high, air[x].amp_low)]
  /\ delPhi_low_obs' = [x \in Segs |-> Shift(water_obs[x].phi_low, air[x].phi_high)]
  /\ delPhi_high_obs' = [x \in Segs |-> Shift(water_obs[x].phi_high, air[x].phi_low)]
  /\ pc' = "rule1"
  /\ UNCHANGED <<vecVars, lossVars>>
  /\ UNCHANGED <<thisData, air, water_pbm, water_obs, nRegr, Ar_pbm, delPhi_pbm, tempDF>>

\* variant: rule (i) discards Ar_obs only
Rule1_ArOnly ==
  /\ pc = "rule1"
  /\ Ar_obs' = [x \in Segs |-> IF LeqArMax(Ar_obs[x]) THEN Ar_obs[x] ELSE RatioNaN]
  /\ pc' = "rule2"
  /\ UNCHANGED <<vecVars, lossVars>>
  /\ UNCHANGED <<thisData, air, water_pbm, water_obs, nRegr, delPhi_obs, Ar_low_obs,
                 Ar_high_obs, delPhi_low_obs, delPhi_high_obs, Ar_pbm, delPhi_pbm, tempDF>>

\* lines 197-198: remove Ar > 1.1
Rule1 ==
  /\ pc = "rule1"
  /\ delPhi_obs' = [x \in Segs |-> IF LeqArMax(Ar_obs[x]) THEN delPhi_obs[x] ELSE NaN]
  /\ Ar_obs' = [x \in Segs |-> IF LeqArMax(Ar_obs[x]) THEN Ar_obs[x] ELSE RatioNaN]
  /\ pc' = "rule2"
  /\ UNCHANGED <<vecVars, lossVars>>
  /\ UNCHANGED <<thisData, air, water_pbm, water_obs, nRegr, Ar_low_obs, Ar_high_obs,
                 delPhi_low_obs, delPhi_high_obs, Ar_pbm, delPhi_pbm, tempDF>>

\* variant: rule (ii) discards delPhi_obs only
Rule2_DelPhiOnly ==
  /\ pc = "rule2"
  /\ delPhi_obs' = [x \in Segs |-> IF GeqDelPhiMin(delPhi_obs[x]) THEN delPhi_obs[x] ELSE NaN]
  /\ pc' = "rule3"
  /\ UNCHANGED <<vecVars, lossVars>>
  /\ UNCHANGED <<thisData, air, water_pbm, water_obs, nRegr, Ar_obs, Ar_low_obs, Ar_high_obs,
                 delPhi_low_obs, delPhi_high_obs, Ar_pbm, delPhi_pbm, tempDF>>

\* lines 205-206: remove delPhi < -10
Rule2 ==
  /\ pc = "rule2"
  /\ Ar_obs' = [x \in Segs |-> IF GeqDelPhiMin(delPhi_obs[x]) THEN Ar_obs[x] ELSE RatioNaN]
  /\ delPhi_obs' = [x \in Segs |-> IF GeqDelPhiMin(delPhi_obs[x]) THEN delPhi_obs[x] ELSE NaN]
  /\ pc' = "rule3"
  /\ UNCHANGED <<vecVars, lossVars>>
  /\ UNCHANGED <<thisData, air, water_pbm, water_obs, nRegr, Ar_low_obs, Ar_high_obs,
                 delPhi_low_obs, delPhi_high_obs, Ar_pbm, delPhi_pbm, tempDF>>

\* variant: the reset to 0 applied to the low and high shifts as well
Rule3_ClampBounds ==
  /\ pc = "rule3"
  /\ delPhi_obs' = [x \in Segs |->
                      IF ~delPhi_obs[x].nan /\ delPhi_obs[x].v > 0 THEN delPhi_obs[x]
                      ELSE IF ~delPhi_obs[x].nan THEN Num(0) ELSE NaN]
  /\ delPhi_low_obs' = [x \in Segs |->
                          IF ~delPhi_low_obs[x].nan /\ delPhi_low_obs[x].v > 0
                            THEN delPhi_low_obs[x]
                          ELSE IF ~delPhi_low_obs[x].nan THEN Num(0) ELSE NaN]
  /\ delPhi_high_obs' = [x \in Segs |->
                           IF ~delPhi_high_obs[x].nan /\ delPhi_high_obs[x].v > 0
                             THEN delPhi_high_obs[x]
                           ELSE IF ~delPhi_high_obs[x].nan THEN Num(0) ELSE NaN]
  /\ pc' = "pbm"
  /\ UNCHANGED <<vecVars, lossVars>>
  /\ UNCHANGED <<thisData, air, water_pbm, water_obs, nRegr, Ar_obs, Ar_low_obs, Ar_high_obs,
                 Ar_pbm, delPhi_pbm, tempDF>>

\* line 209: reset delPhi between -10 and 0 to 0
Rule3 ==
  /\ pc = "rule3"
  /\ delPhi_obs' = [x \in Segs |->
                      IF ~delPhi_obs[x].nan /\ delPhi_obs[x].v > 0 THEN delPhi_obs[x]
                      ELSE IF ~delPhi_obs[x].nan THEN Num(0) ELSE NaN]
  /\ pc' = "pbm"
  /\ UNCHANGED <<vecVars, lossVars>>
  /\ UNCHANGED <<thisData, air, water_pbm, water_obs, nRegr, Ar_obs, Ar_low_obs, Ar_high_obs,
                 delPhi_low_obs, delPhi_high_obs, Ar_pbm, delPhi_pbm, tempDF>>

\* variant: the process-model values go through rules (i) and (iii) as well
DerivePbm_Filtered ==
  /\ pc = "pbm"
  /\ Ar_pbm' = [x \in Segs |->
                  IF LeqArMax(Div(water_pbm[x].amp, air[x].amp))
                    THEN Div(water_pbm[x].amp, air[x].amp) ELSE RatioNaN]
  /\ delPhi_pbm' = [x \in Segs |->
                      LET d == Shift(water_pbm[x].phi, air[x].phi)
                      IN IF ~d.nan /\ d.v < 0 THEN Num(0) ELSE d]
  /\ pc' = "table"
  /\ UNCHANGED <<vecVars, lossVars>>
  /\ UNCHANGED <<thisData, air, water_pbm, water_obs, nRegr, Ar_obs, delPhi_obs, Ar_low_obs,
                 Ar_high_obs, delPhi_low_obs, delPhi_high_obs, tempDF>>

\* lines 213-214
DerivePbm ==
  /\ pc = "pbm"
  /\ Ar_pbm' = [x \in Segs |-> Div(water_pbm[x].amp, air[x].amp)]
  /\ delPhi_pbm' = [x \in Segs |-> Shift(water_pbm[x].phi, air[x].phi)]
  /\ pc' = "table"
  /\ UNCHANGED <<vecVars, lossVars>>
  /\ UNCHANGED <<thisData, air, water_pbm, water_obs, nRegr, Ar_obs, delPhi_obs, Ar_low_obs,
                 Ar_high_obs, delPhi_low_obs, delPhi_high_obs, tempDF>>

\* lines 216-217
BuildTable ==
  /\ pc = "table"
  /\ tempDF' = [x \in Segs |->
        [seg_id_nat |-> x,
         air_amp |-> air[x].amp, air_phi |-> air[x].phi,
         water_amp_obs |-> water_obs[x].amp, water_phi_obs |-> water_obs[x].phi,
         Ar_obs |-> Ar_obs[x], delPhi_obs |-> delPhi_obs[x],
         Ar_low_obs |-> Ar_low_obs[x], Ar_high_obs |-> Ar_high_obs[x],
         delPhi_low_obs |-> delPhi_low_obs[x], delPhi_high_obs |-> delPhi_high_obs[x],
         water_amp_pbm |-> water_pbm[x].amp, water_phi_pbm |-> water_pbm[x].phi,
         Ar_pbm |-> Ar_pbm[x], delPhi_pbm |-> delPhi_pbm[x]]]
  /\ pc' = "done"
  /\ UNCHANGED <<vecVars, lossVars>>
  /\ UNCHANGED <<thisData, air, water_pbm, water_obs, nRegr, Ar_obs, delPhi_obs, Ar_low_obs,
                 Ar_high_obs, delPhi_low_obs, delPhi_high_obs, Ar_pbm, delPhi_pbm>>

Next ==
  \/ FitSegment
  \/ Derive
  \/ Rule1
  \/ Rule2
  \/ Rule3
  \/ DerivePbm
  \/ BuildTable

Spec == Init /\ [][Next]_vars

(***************************************************************************)
(* annual_temp_stats called again on the dataset of the previous call, as   *)
(* a caller holding the first table can do                                  *)
(***************************************************************************)
TwiceDataSet ==
  {Seg(AirMain, Series(<<3, 4>>, Full, 0), o) : o \in ObsSet1}
  \cup {Seg(AirMain, Series(<<3, 4>>, (0 :> 366), 0), Series(<<7, 0>>, Full, 0)),
        Seg(AirNone, Series(<<3, 4>>, Full, 0), Series(<<3, 4>>, Full, 0))}

InitTwice ==
  /\ thisData \in [Segs -> TwiceDataSet]
  /\ pc = "fit"
  /\ air = <<>> /\ water_pbm = <<>> /\ water_obs = <<>> /\ nRegr = <<>>
  /\ Ar_obs = <<>> /\ delPhi_obs = <<>> /\ Ar_low_obs = <<>> /\ Ar_high_obs = <<>>
  /\ delPhi_low_obs = <<>> /\ delPhi_high_obs = <<>>
  /\ Ar_pbm = <<>> /\ delPhi_pbm = <<>> /\ tempDF = <<>>
  /\ VecIdle
  /\ LossIdle

\* a second call annual_temp_stats(thisData): lines 87-104 start from empty
\* lists, the locals of the first call are gone, its table stays with the caller
Rerun ==
  /\ pc = "done"
  /\ pc' = "fit"
  /\ air' = <<>> /\ water_pbm' = <<>> /\ water_obs' = <<>> /\ nRegr' = <<>>
  /\ Ar_obs' = <<>> /\ delPhi_obs' = <<>> /\ Ar_low_obs' = <<>> /\ Ar_high_obs' = <<>>
  /\ delPhi_low_obs' = <<>> /\ delPhi_high_obs' = <<>>
  /\ Ar_pbm' = <<>> /\ delPhi_pbm' = <<>>
  /\ UNCHANGED <<thisData, tempDF, vecVars, lossVars>>

NextTwice ==
  \/ FitSegment
  \/ Derive
  \/ Rule1
  \/ Rule2
  \/ Rule3
  \/ DerivePbm
  \/ BuildTable
  \/ Rerun

SpecTwice == InitTwice /\ [][NextTwice]_vars

(***************************************************************************)
(* loss_functions.py: rmse and the masked statistics.                      *)
(* A float32 is a record [nan, v] with v in hundredths; squares and their  *)
(* sums are kept exactly (in 1/10000) until a division or a square root    *)
(* rounds them down to hundredths.  Tensors arrive flattened.              *)
(***************************************************************************)
VecLen == 3

RECURSIVE SumSeq(_)
SumSeq(s) == IF s = <<>> THEN 0 ELSE Head(s) + SumSeq(Tail(s))

\* the sequence f with every element evaluated
RECURSIVE Strict(_, _)
Strict(f, n) == IF n = 0 THEN <<>> ELSE Append(Strict(f, n - 1), f[n])

RECURSIVE ISqrtIn(_, _, _)
ISqrtIn(n, lo, hi) ==
  IF hi - lo <= 1 THEN lo
  ELSE LET mid == (lo + hi) \div 2
       IN IF mid * mid <= n THEN ISqrtIn(n, mid, hi) ELSE ISqrtIn(n, lo, mid)
\* floor of the square root, for 0 <= n < 2^30
ISqrt(n) == ISqrtIn(n, 0, 32768)

\* x - y on floats
FSub(x, y) == IF x.nan \/ y.nan THEN NaN ELSE Num(x.v - y.v)

\* tf.math.count_nonzero(~tf.math.is_nan(y))
CountNotNan(y) == Cardinality({k \in DOMAIN y : ~y[k].nan})

\* tf.reduce_sum(tf.square(e)): NaN as soon as one element is NaN
SumSquares(e) ==
  IF \E k \in DOMAIN e : e[k].nan THEN NaN
  ELSE Num(SumSeq([k \in DOMAIN e |-> e[k].v * e[k].v]))

\* tf.sqrt(x / n) of an exact sum of squares x (0/0 is NaN, sqrt(-0.0) is 0)
SqrtOfQuotient(x, n) ==
  IF x.nan THEN NaN
  ELSE IF n = 0 THEN (IF x.v = 0 THEN NaN ELSE Num(-1))
  ELSE IF n < 0 THEN (IF x.v = 0 THEN Num(0) ELSE NaN)
  ELSE Num(ISqrt(x.v \div n))

\* tf.where(tf.math.is_nan(y_true), tf.zeros_like(y_true), y_pred - y_true)
zero_or_error(yt, yp) ==
  Strict([k \in DOMAIN yt |-> IF yt[k].nan THEN Num(0) ELSE FSub(yp[k], yt[k])], Len(yt))

\* variant: rmse without the test num_y_true > 0
rmse_NoGuard(yt, yp) ==
  SqrtOfQuotient(SumSquares(zero_or_error(yt, yp)), CountNotNan(yt))

rmse(yt, yp) ==
  LET num_y_true == CountNotNan(yt)
  IN IF num_y_true > 0
       THEN SqrtOfQuotient(SumSquares(zero_or_error(yt, yp)), num_y_true)
       ELSE Num(0)

\* variant: the mean over all positions, missing ones included
mean_masked_AllPositions(y) ==
  LET zero_or_val == [k \in DOMAIN y |-> IF y[k].nan THEN 0 ELSE y[k].v]
  IN IF Len(y) = 0 THEN NaN ELSE Num(SumSeq(zero_or_val) \div Len(y))

mean_masked(y) ==
  LET num_vals == CountNotNan(y)
      zero_or_val == [k \in DOMAIN y |-> IF y[k].nan THEN 0 ELSE y[k].v]
  IN IF num_vals = 0 THEN NaN ELSE Num(SumSeq(zero_or_val) \div num_vals)

dev_masked(y) ==
  LET mean == mean_masked(y)
  IN Strict([k \in DOMAIN y |-> IF y[k].nan THEN Num(0) ELSE FSub(y[k], mean)], Len(y))

std_masked(y) ==
  LET dev == dev_masked(y)
      num_vals == CountNotNan(y)
  IN SqrtOfQuotient(SumSquares(dev), num_vals - 1)

TrueValues == {NaN, Num(100), Num(400)}
PredValues == {NaN, Num(100), Num(200)}

VecInit ==
  /\ y_true \in [1..VecLen -> TrueValues]
  /\ y_pred \in [1..VecLen -> PredValues]
  /\ vres = NoCall
  /\ thisData = <<>> /\ pc = "idle" /\ air = <<>> /\ water_pbm = <<>> /\ water_obs = <<>>
  /\ nRegr = <<>> /\ Ar_obs = <<>> /\ delPhi_obs = <<>> /\ Ar_low_obs = <<>>
  /\ Ar_high_obs = <<>> /\ delPhi_low_obs = <<>> /\ delPhi_high_obs = <<>>
  /\ Ar_pbm = <<>> /\ delPhi_pbm = <<>> /\ tempDF = <<>>
  /\ LossIdle

\* a call rmse(y_true, y_pred)
CallRmse ==
  /\ pc = "idle" /\ y_true # <<>> /\ vres = NoCall
  /\ vres' = [op |-> "rmse", rmse |-> rmse(y_true, y_pred)]
  /\ UNCHANGED <<y_true, y_pred, statsVars, lossVars>>

\* calls mean_masked(y_true), dev_masked(y_true), std_masked(y_true)
CallMaskedStats ==
  /\ pc = "idle" /\ y_true # <<>> /\ vres = NoCall
  /\ vres' = [op |-> "stats", mean |-> mean_masked(y_true),
              dev |-> dev_masked(y_true), std |-> std_masked(y_true)]
  /\ UNCHANGED <<y_true, y_pred, statsVars, lossVars>>

VecNext ==
  \/ CallRmse
  \/ CallMaskedStats

SpecVec == VecInit /\ [][VecNext]_vars

(***************************************************************************)
(* loss_functions.py: the composite loss with the groundwater terms.       *)
(* Temperatures, flows, weights, Ar and lambdas are in hundredths, phases  *)
(* in tenths of a degree, phase shifts in hundredths of a day; the sin/cos *)
(* features are in units of 1 (the model feeds the quarter phases only).   *)
(***************************************************************************)
Batch == 2
NumSteps == 4

FAdd(x, y) == IF x.nan \/ y.nan THEN NaN ELSE Num(x.v + y.v)
\* product of two values in hundredths
FMul(x, y) == IF x.nan \/ y.nan THEN NaN ELSE Num((x.v * y.v) \div 100)
\* quotient of two values in hundredths; no input of the model divides by 0
FDiv(x, y) == IF x.nan \/ y.nan \/ y.v = 0 THEN NaN ELSE Num((x.v * 100) \div y.v)

\* t[:, :, -2:]  t[:, :, :2]  t[:, :, 2:-2] on the channels of one cell
LastTwo(row) == SubSeq(row, Len(row) - 1, Len(row))
FirstTwo(row) == SubSeq(row, 1, 2)
Inner(row) == SubSeq(row, 3, Len(row) - 2)

\* a [segment][timestep] tensor as the sequence of its elements
Flatten(m) ==
  Strict([k \in 1..(Len(m) * Len(m[1])) |->
            m[((k - 1) \div Len(m[1])) + 1][((k - 1) % Len(m[1])) + 1]],
         Len(m) * Len(m[1]))

\* a [segment][timestep] tensor whose cell (s, t) is F(s, t)
Tensor(d, F(_, _)) ==
  Strict([s \in DOMAIN d |-> Strict([t \in DOMAIN d[s] |-> F(s, t)], Len(d[s]))], Len(d))

\* variant: a cell is masked when the weight of either variable is 0
y_data_components_AnyWeight(d, p, var_idx) ==
  LET weights(s, t) == LastTwo(d[s][t])
      yt(s, t) == FirstTwo(d[s][t])
      masked(s, t) ==
        [k \in 1..2 |->
           IF \E j \in 1..2 : ~weights(s, t)[j].nan /\ weights(s, t)[j].v = 0
             THEN NaN ELSE yt(s, t)[k]]
      true_var(s, t) == masked(s, t)[var_idx + 1]
      pred_var(s, t) == p[s][t][var_idx + 1]
      weights_var(s, t) == weights(s, t)[var_idx + 1]
  IN [y_true |-> Tensor(d, true_var),
      y_pred |-> Tensor(d, pred_var),
      weights |-> Tensor(d, weights_var)]

y_data_components(d, p, var_idx) ==
  LET weights(s, t) == LastTwo(d[s][t])
      yt(s, t) == FirstTwo(d[s][t])
      masked(s, t) ==
        [k \in 1..2 |->
           IF ~weights(s, t)[k].nan /\ weights(s, t)[k].v = 0 THEN NaN ELSE yt(s, t)[k]]
      true_var(s, t) == masked(s, t)[var_idx + 1]
      pred_var(s, t) == p[s][t][var_idx + 1]
      weights_var(s, t) == weights(s, t)[var_idx + 1]
  IN [y_true |-> Tensor(d, true_var),
      y_pred |-> Tensor(d, pred_var),
      weights |-> Tensor(d, weights_var)]

rmse_masked_one_var(d, p, var_idx) ==
  LET c == y_data_components(d, p, var_idx)
  IN rmse(Flatten(c.y_true), Flatten(c.y_pred))

Det3(m) ==
    m[1][1] * (m[2][2] * m[3][3] - m[2][3] * m[3][2])
  - m[1][2] * (m[2][1] * m[3][3] - m[2][3] * m[3][1])
  + m[1][3] * (m[2][1] * m[3][2] - m[2][2] * m[3][1])

\* pinv(X^T X) X^T y for the design [1, sin, cos]: the solution of the normal
\* equations when they are regular (by Cramer's rule); a singular system, on
\* which pinv returns the minimum-norm solution, is outside the inputs of the
\* model and is marked NaN here
NormalEquation(x, y) ==
  IF \E t \in DOMAIN y : y[t].nan \/ x[t][1].nan \/ x[t][2].nan
    THEN <<NaN, NaN, NaN>>
    ELSE
      LET X == Strict([t \in DOMAIN y |-> <<1, x[t][1].v, x[t][2].v>>], Len(y))
          G == Strict([i \in 1..3 |->
                 Strict([j \in 1..3 |-> SumSeq([t \in DOMAIN y |-> X[t][i] * X[t][j]])], 3)], 3)
          v == Strict([i \in 1..3 |-> SumSeq([t \in DOMAIN y |-> X[t][i] * y[t].v])], 3)
          Gk(k) == Strict([i \in 1..3 |->
                     Strict([j \in 1..3 |-> IF j = k THEN v[i] ELSE G[i][j]], 3)], 3)
          det == Det3(G)
      IN IF det = 0
           THEN <<NaN, NaN, NaN>>
           ELSE Strict([k \in 1..3 |-> Num(Det3(Gk(k)) \div det)], 3)

\* variant: air phase and air amplitude read from each other's channel
GwSegment_SwappedAir(yt, yp) ==
  LET x_lm == Strict([t \in DOMAIN yt |-> LastTwo(yt[t])], Len(yt))
      a_b == NormalEquation(x_lm, yp)
      Aw == IF a_b[2].nan \/ a_b[3].nan THEN NaN
            ELSE Num(ISqrt(a_b[2].v * a_b[2].v + a_b[3].v * a_b[3].v))
      Phiw == IF a_b[2].nan \/ a_b[3].nan THEN NaN ELSE Phase(a_b[2].v, a_b[3].v)
      delPhi_pred == IF Phiw.nan \/ yt[1][4].nan THEN NaN
                     ELSE Num(((Phiw.v - yt[1][4].v) * DaysPerYear * 10) \div 360)
      Ar_pred == FDiv(Aw, yt[1][3])
  IN [Ar_obs |-> yt[1][1], Ar_pred |-> Ar_pred,
      delPhi_obs |-> yt[1][2], delPhi_pred |-> delPhi_pred,
      Aw |-> Aw, Phiw |-> Phiw]

\* Aw, Phiw, Ar_pred and delPhi_pred of one segment: yt is y_true[s], yp is y_pred_temp[s]
\* (the locals Aw and Phiw are kept in the result next to the four returned values)
GwSegment(yt, yp) ==
  LET x_lm == Strict([t \in DOMAIN yt |-> LastTwo(yt[t])], Len(yt))
      a_b == NormalEquation(x_lm, yp)
      Aw == IF a_b[2].nan \/ a_b[3].nan THEN NaN
            ELSE Num(ISqrt(a_b[2].v * a_b[2].v + a_b[3].v * a_b[3].v))
      Phiw == IF a_b[2].nan \/ a_b[3].nan THEN NaN ELSE Phase(a_b[2].v, a_b[3].v)
      delPhi_pred == IF Phiw.nan \/ yt[1][3].nan THEN NaN
                     ELSE Num(((Phiw.v - yt[1][3].v) * DaysPerYear * 10) \div 360)
      Ar_pred == FDiv(Aw, yt[1][4])
  IN [Ar_obs |-> yt[1][1], Ar_pred |-> Ar_pred,
      delPhi_obs |-> yt[1][2], delPhi_pred |-> delPhi_pred,
      Aw |-> Aw, Phiw |-> Phiw]

GW_loss_prep(temp_index, d, p, temp_mean, temp_sd) ==
  LET inner(s, t) == Inner(d[s][t])
      unscaled(s, t) == FAdd(FMul(p[s][t][temp_index + 1], temp_sd), temp_mean)
      yt == Tensor(d, inner)
      y_pred_temp == Tensor(d, unscaled)
      seg == Strict([s \in DOMAIN d |-> GwSegment(yt[s], y_pred_temp[s])], Len(d))
  IN [Ar_obs |-> Strict([s \in DOMAIN d |-> seg[s].Ar_obs], Len(d)),
      Ar_pred |-> Strict([s \in DOMAIN d |-> seg[s].Ar_pred], Len(d)),
      delPhi_obs |-> Strict([s \in DOMAIN d |-> seg[s].delPhi_obs], Len(d)),
      delPhi_pred |-> Strict([s \in DOMAIN d |-> seg[s].delPhi_pred], Len(d)),
      Aw |-> Strict([s \in DOMAIN d |-> seg[s].Aw], Len(d)),
      Phiw |-> Strict([s \in DOMAIN d |-> seg[s].Phiw], Len(d))]

\* weighted_masked_rmse_gw(temp_index, temp_mean, temp_sd, lamb, lamb2, lamb3)(data, y_pred)
rmse_masked_combined_gw(a, d, p) ==
  LET rmse_main == rmse_masked_one_var(d, p, 0)
      rmse_aux == rmse_masked_one_var(d, p, 1)
      gw == GW_loss_prep(a.temp_index, d, p, a.temp_mean, a.temp_sd)
      rmse_Ar == rmse(gw.Ar_obs, gw.Ar_pred)
      rmse_delPhi == rmse(gw.delPhi_obs, gw.delPhi_pred)
  IN FAdd(FAdd(FAdd(rmse_main, FMul(a.lamb, rmse_aux)), FMul(a.lamb2, rmse_Ar)),
          FMul(a.lamb3, rmse_delPhi))

(***************************************************************************)
(* Input tensors of the loss                                               *)
(***************************************************************************)
QuarterSin == <<0, 1, 0, -1>>
QuarterCos == <<1, 0, -1, 0>>
MainTrue == <<Num(100), Num(400), NaN, Num(100)>>
AuxTrue == <<Num(900), NaN, Num(300), Num(100)>>
AuxPred == <<Num(800), Num(900), Num(200), Num(100)>>
\* predicted temperature: 10 + 3 sin + 4 cos, constant 10, 10 + 4 sin + 4 cos
MainPreds ==
  << <<Num(1400), Num(1300), Num(600), Num(700)>>,
     <<Num(1000), Num(1000), Num(1000), Num(1000)>>,
     <<Num(1400), Num(1400), Num(600), Num(600)>> >>
\* weights of the main and of the auxiliary variable at timestep 2 and elsewhere
WeightPatterns ==
  { [m2 |-> 100, a2 |-> 100, rest |-> 100],
    [m2 |-> 0, a2 |-> 100, rest |-> 100],
    [m2 |-> 100, a2 |-> 0, rest |-> 50],
    [m2 |-> 0, a2 |-> 0, rest |-> 0] }
ExtraChannels == {0, 1}

Phase4(t) == ((t - 1) % 4) + 1

\* the channels of one cell: y_true (2), Ar_obs, delPhi_obs, air phase, air
\* amplitude, extra groundwater variables, sin, cos, weights (2)
Cell(t, w, g, extra) ==
  <<MainTrue[Phase4(t)], AuxTrue[Phase4(t)]>>
  \o [k \in 1..4 |-> IF g[k].nan THEN NaN ELSE Num(g[k].v + 10 * (t - 1))]
  \o [k \in 1..extra |-> Num(7)]
  \o <<Num(QuarterSin[Phase4(t)]), Num(QuarterCos[Phase4(t)])>>
  \o <<Num(IF t = 2 THEN w.m2 ELSE w.rest), Num(IF t = 2 THEN w.a2 ELSE w.rest)>>

\* per segment: the groundwater targets and the predicted temperature
SegCases ==
  { [g |-> <<Num(80), Num(500), Num(2250), Num(500)>>, mp |-> MainPreds[1]],
    [g |-> <<Num(80), Num(500), Num(2250), Num(500)>>, mp |-> MainPreds[3]],
    [g |-> <<NaN, NaN, Num(2250), Num(500)>>, mp |-> MainPreds[2]] }

LossInit ==
  /\ \E extra \in ExtraChannels :
       \E w \in [1..Batch -> WeightPatterns], c \in [1..Batch -> SegCases] :
         /\ data = [s \in 1..Batch |-> [t \in 1..NumSteps |-> Cell(t, w[s], c[s].g, extra)]]
         /\ pred = [s \in 1..Batch |-> [t \in 1..NumSteps |->
                       <<c[s].mp[Phase4(t)], AuxPred[Phase4(t)]>>]]
  /\ lres = NoCall
  /\ thisData = <<>> /\ pc = "idle" /\ air = <<>> /\ water_pbm = <<>> /\ water_obs = <<>>
  /\ nRegr = <<>> /\ Ar_obs = <<>> /\ delPhi_obs = <<>> /\ Ar_low_obs = <<>>
  /\ Ar_high_obs = <<>> /\ delPhi_low_obs = <<>> /\ delPhi_high_obs = <<>>
  /\ Ar_pbm = <<>> /\ delPhi_pbm = <<>> /\ tempDF = <<>>
  /\ VecIdle

Args(ti, mean, sd, l1, l2, l3) ==
  [temp_index |-> ti, temp_mean |-> Num(mean), temp_sd |-> Num(sd),
   lamb |-> Num(l1), lamb2 |-> Num(l2), lamb3 |-> Num(l3)]
LossArgs ==
  { Args(0, 0, 100, 50, 100, 200),
    Args(0, 500, 200, 50, 0, 200),
    Args(1, 0, 100, 50, 100, 0),
    Args(0, 0, 100, 50, 0, 0) }

\* a call rmse_masked_one_var(data, y_pred, var_idx)
CallOneVar ==
  /\ pc = "idle" /\ data # <<>> /\ lres = NoCall
  /\ \E var_idx \in {0, 1} :
       lres' = [op |-> "one_var", var_idx |-> var_idx,
                rmse |-> rmse_masked_one_var(data, pred, var_idx)]
  /\ UNCHANGED <<data, pred, statsVars, vecVars>>

\* a call of the loss made by weighted_masked_rmse_gw
CallLossGw ==
  /\ pc = "idle" /\ data # <<>> /\ lres = NoCall
  /\ \E a \in LossArgs :
       lres' = [op |-> "gw", args |-> a, loss |-> rmse_masked_combined_gw(a, data, pred)]
  /\ UNCHANGED <<data, pred, statsVars, vecVars>>

LossNext ==
  \/ CallOneVar
  \/ CallLossGw

SpecLoss == LossInit /\ [][LossNext]_vars

(***************************************************************************)
(* loss_functions.py: sample_avg_nse on a [sample][timestep] tensor.        *)
(* Values in hundredths, sums of squares in 1/10000, scores in hundredths.  *)
(***************************************************************************)
NseSamples == 2
\* the small value added to the deviation (0.1)
Stabiliser == 10

sample_avg_nse(yt, yp) ==
  LET zero_or_err == Strict([s \in DOMAIN yt |-> zero_or_error(yt[s], yp[s])], Len(yt))
      dev == dev_masked(Flatten(yt))
      deviation == Strict([s \in DOMAIN yt |->
                      Strict([t \in DOMAIN yt[s] |->
                                FAdd(dev[(s - 1) * Len(yt[1]) + t], Num(Stabiliser))],
                             Len(yt[s]))], Len(yt))
      numerator_samplewise == Strict([s \in DOMAIN yt |-> SumSquares(zero_or_err[s])], Len(yt))
      denomin_samplewise == Strict([s \in DOMAIN yt |-> SumSquares(deviation[s])], Len(yt))
      nse_samplewise ==
        Strict([s \in DOMAIN yt |->
                  IF numerator_samplewise[s].nan \/ denomin_samplewise[s].nan
                       \/ denomin_samplewise[s].v = 0
                    THEN NaN
                    ELSE Num(100 - ((numerator_samplewise[s].v * 100) \div denomin_samplewise[s].v))],
               Len(yt))
      total == IF \E s \in DOMAIN yt : nse_samplewise[s].nan THEN NaN
               ELSE Num(SumSeq([s \in DOMAIN yt |-> nse_samplewise[s].v]))
  IN [numerator_samplewise |-> numerator_samplewise,
      denomin_samplewise |-> denomin_samplewise,
      nse_samplewise_avg |-> IF total.nan THEN NaN ELSE Num(total.v \div Len(yt))]

\* rows of true values and of predictions, one value per timestep
TrueRows ==
  { [t \in 1..VecLen |-> Num(100 * t)],
    [t \in 1..VecLen |-> IF t = 1 THEN NaN ELSE Num(100 * t)],
    [t \in 1..VecLen |-> IF t = 2 THEN NaN ELSE Num(400 + 200 * (t % 2))],
    [t \in 1..VecLen |-> Num(900 - 200 * t)],
    [t \in 1..VecLen |-> NaN] }
PredRows ==
  { [t \in 1..VecLen |-> Num(100 * t)],
    [t \in 1..VecLen |-> Num(300)],
    [t \in 1..VecLen |-> Num(100 * t + 50)] }

NseInit ==
  /\ y_true \in [1..NseSamples -> TrueRows]
  /\ y_pred \in [1..NseSamples -> PredRows]
  /\ vres = NoCall
  /\ thisData = <<>> /\ pc = "idle" /\ air = <<>> /\ water_pbm = <<>> /\ water_obs = <<>>
  /\ nRegr = <<>> /\ Ar_obs = <<>> /\ delPhi_obs = <<>> /\ Ar_low_obs = <<>>
  /\ Ar_high_obs = <<>> /\ delPhi_low_obs = <<>> /\ delPhi_high_obs = <<>>
  /\ Ar_pbm = <<>> /\ delPhi_pbm = <<>> /\ tempDF = <<>>
  /\ LossIdle

\* a call sample_avg_nse(y_true, y_pred)
CallSampleAvgNse ==
  /\ pc = "idle" /\ y_true # <<>> /\ vres = NoCall
  /\ vres' = [op |-> "sample_avg_nse", out |-> sample_avg_nse(y_true, y_pred)]
  /\ UNCHANGED <<y_true, y_pred, statsVars, lossVars>>

\* a call samplewise_nnse_loss(y_true, y_pred) = 1 - 1 / (2 - sample_avg_nse)
CallSamplewiseNnseLoss ==
  /\ pc = "idle" /\ y_true # <<>> /\ vres = NoCall
  /\ LET nse == sample_avg_nse(y_true, y_pred).nse_samplewise_avg
     IN vres' = [op |-> "samplewise_nnse_loss",
                 out |-> IF nse.nan \/ nse.v = 200 THEN NaN
                         ELSE Num(100 - (10000 \div (200 - nse.v)))]
  /\ UNCHANGED <<y_true, y_pred, statsVars, lossVars>>

NseNext ==
  \/ CallSampleAvgNse
  \/ CallSamplewiseNnseLoss

SpecNse == NseInit /\ [][NseNext]_vars

(***************************************************************************)
(* calc_amp_phi on a series of predicted temperatures, next to GW_loss_prep *)
(* on a batch of one segment holding the same temperatures.                *)
(* The dated series is given in hundredths of a degree at the quarter      *)
(* phases of the year; it is brought to the series abstraction of amp_phi  *)
(* by counting each value under a representative temperature of its side   *)
(* of the thresholds and by solving the regression on the samples that     *)
(* amp_phi retains.                                                        *)
(***************************************************************************)
\* the representative in Temps of a temperature given in hundredths
Representative(v) ==
  IF v < 100 * WaterMin THEN 0
  ELSE IF v <= 100 * WaterMax THEN 20
  ELSE IF v <= 100 * ObsMax THEN 46
  ELSE 61

\* the positions of a water series that amp_phi keeps (line 40)
Retained(temp) ==
  SelectSeq([t \in 1..Len(temp) |-> t],
            LAMBDA t : /\ ~temp[t].nan
                       /\ LET r == Representative(temp[t].v)
                          IN WaterBand(Counts(r :> 1))[r] > 0)

\* x = [[sin(2 pi j), cos(2 pi j)] for j in date_decimal] at the kept positions
RowsAt(x, keep) == Strict([j \in 1..Len(keep) |-> x[keep[j]]], Len(keep))

\* the regression on the kept positions has a single solution
Determined(temp, x) ==
  LET keep == Retained(temp)
  IN /\ Len(keep) >= 3
     /\ ~NormalEquation(RowsAt(x, keep), RowsAt(temp, keep))[2].nan

\* the series abstraction of a dated water series
SeriesOf(temp, x) ==
  LET keep == Retained(temp)
      coef == NormalEquation(RowsAt(x, keep), RowsAt(temp, keep))
      buckets == [r \in Temps |->
                    Cardinality({t \in 1..Len(temp) :
                                   ~temp[t].nan /\ Representative(temp[t].v) = r})]
  IN [ols |-> IF Determined(temp, x) THEN <<coef[2].v, coef[3].v>> ELSE <<0, 0>>,
      hw |-> 0,
      cnt |-> buckets,
      nnan |-> Cardinality({t \in 1..Len(temp) : temp[t].nan})]

\* one iteration of the loop of calc_amp_phi: amp and phi kept, the bounds dropped
calc_amp_phi(temp, x) ==
  LET r == amp_phi(SeriesOf(temp, x), TRUE)
  IN [raised |-> r.raised, water_amp_pred |-> r.fit.amp, water_phi_pred |-> r.fit.phi]

\* annual sinusoids mean + a sin + b cos, in hundredths of a degree
SinusoidMeans == {-500, 400, 1000, 4100, 5000}
SinusoidCoefs == {<<300, 400>>, <<400, 300>>, <<400, 400>>, <<-300, 400>>, <<300, -400>>}
Sinusoid(m, c) ==
  [t \in 1..NumSteps |-> Num(m + c[1] * QuarterSin[Phase4(t)] + c[2] * QuarterCos[Phase4(t)])]
Features == [t \in 1..NumSteps |-> <<Num(QuarterSin[Phase4(t)]), Num(QuarterCos[Phase4(t)])>>]

\* temp_index, temp_mean, temp_sd of the loss
PrepArgs == {Args(0, 0, 100, 50, 100, 100), Args(1, 500, 200, 50, 100, 100)}

\* (temp - temp_mean) / temp_sd: the scaled output whose rescaling is temp
Scaled(temp, a) ==
  [t \in 1..Len(temp) |-> Num(((temp[t].v - a.temp_mean.v) * 100) \div a.temp_sd.v)]

\* y_pred * temp_sd + temp_mean of line 227, for segment s
Unscaled(p, s, a) ==
  Strict([t \in 1..Len(p[s]) |-> FAdd(FMul(p[s][t][a.temp_index + 1], a.temp_sd), a.temp_mean)],
         Len(p[s]))

\* a batch of one segment; thisData is the dataset of predicted temperatures
\* written for calc_amp_phi, pred the scaled output of the network
AgreeInit ==
  /\ \E m \in SinusoidMeans, c \in SinusoidCoefs, a \in PrepArgs, extra \in ExtraChannels :
       LET temp == Sinusoid(m, c)
       IN /\ Len(Retained(temp)) = 0 \/ Determined(temp, Features)
          /\ thisData = <<[seg_tave_water |-> temp, x |-> Features]>>
          /\ data = <<[t \in 1..NumSteps |->
                         Cell(t, [m2 |-> 100, a2 |-> 100, rest |-> 100],
                              <<Num(80), Num(500), Num(2250), Num(500)>>, extra)]>>
          /\ pred = <<[t \in 1..NumSteps |->
                         IF a.temp_index = 0 THEN <<Scaled(temp, a)[t], AuxPred[Phase4(t)]>>
                                             ELSE <<AuxPred[Phase4(t)], Scaled(temp, a)[t]>>]>>
  /\ lres = NoCall
  /\ y_true = <<>> /\ y_pred = <<>> /\ vres = NoCall
  /\ pc = "idle" /\ air = <<>> /\ water_pbm = <<>> /\ water_obs = <<>>
  /\ nRegr = <<>> /\ Ar_obs = <<>> /\ delPhi_obs = <<>> /\ Ar_low_obs = <<>>
  /\ Ar_high_obs = <<>> /\ delPhi_low_obs = <<>> /\ delPhi_high_obs = <<>>
  /\ Ar_pbm = <<>> /\ delPhi_pbm = <<>> /\ tempDF = <<>>

\* GW_loss_prep(temp_index, data, y_pred, temp_mean, temp_sd) on the batch
CallGwLossPrep ==
  /\ pc = "idle" /\ thisData # <<>> /\ lres = NoCall
  /\ \E a \in PrepArgs :
       /\ Unscaled(pred, 1, a) = thisData[1].seg_tave_water
       /\ lres' = [op |-> "prep", args |-> a,
                   gw |-> GW_loss_prep(a.temp_index, data, pred, a.temp_mean, a.temp_sd)]
  /\ UNCHANGED <<data, pred, statsVars, vecVars>>

\* calc_amp_phi(thisData) on the predicted temperatures
CallCalcAmpPhi ==
  /\ pc = "idle" /\ thisData # <<>> /\ vres = NoCall
  /\ vres' = [op |-> "calc_amp_phi",
              out |-> calc_amp_phi(thisData[1].seg_tave_water, thisData[1].x)]
  /\ UNCHANGED <<y_true, y_pred, statsVars, lossVars>>

AgreeNext ==
  \/ CallGwLossPrep
  \/ CallCalcAmpPhi

SpecAgree == AgreeInit /\ [][AgreeNext]_vars

(***************************************************************************)
(* prep_annual_signal_data: the training targets of the groundwater loss.   *)
(* Here tempDF is the table GW_trn in the units of the loss: Ar in          *)
(* hundredths, delPhi in hundredths of a day, air_phi in tenths of a        *)
(* degree, air_amp in hundredths of a degree C.                             *)
(***************************************************************************)
\* np.nanmean and np.nanstd (population form) of a column
nanmean(col) ==
  LET vals == SelectSeq(col, LAMBDA x : ~x.nan)
  IN IF Len(vals) = 0 THEN NaN
     ELSE Num(SumSeq([j \in 1..Len(vals) |-> vals[j].v]) \div Len(vals))
nanstd(col) ==
  LET vals == SelectSeq(col, LAMBDA x : ~x.nan)
      mean == nanmean(col)
  IN IF Len(vals) = 0 THEN NaN
     ELSE Num(ISqrt(SumSeq([j \in 1..Len(vals) |->
                              (vals[j].v - mean.v) * (vals[j].v - mean.v)]) \div Len(vals)))

\* (col - np.nanmean(col)) / np.nanstd(col), lines 284-285
Standardize(col) ==
  LET mean == nanmean(col)
      std == nanstd(col)
  IN Strict([x \in DOMAIN col |->
               IF col[x].nan \/ mean.nan \/ std.nan \/ std.v = 0 THEN NaN
               ELSE Num(((col[x].v - mean.v) * 100) \div std.v)], Len(col))

\* rows of GW_trn and the sin/cos coefficients of the observed water signal:
\* water 7 sin, 4 sin + 3 cos, 6 sin against air of amplitude 10 and phase 225
\* degrees, and a segment without observed signal
PrepCases ==
  { [Ar_obs |-> Num(70), delPhi_obs |-> Num(4562), air_phi |-> Num(2250),
     air_amp |-> Num(1000), water |-> <<700, 0>>],
    [Ar_obs |-> Num(50), delPhi_obs |-> Num(821), air_phi |-> Num(2250),
     air_amp |-> Num(1000), water |-> <<400, 300>>],
    [Ar_obs |-> Num(60), delPhi_obs |-> Num(4562), air_phi |-> Num(2250),
     air_amp |-> Num(1000), water |-> <<600, 0>>],
    [Ar_obs |-> NaN, delPhi_obs |-> NaN, air_phi |-> Num(2250),
     air_amp |-> Num(1000), water |-> <<400, 300>>] }

\* the table of the training partition, and a network output whose
\* temperature is the observed water signal of every segment
PrepInit ==
  /\ tempDF \in [1..Batch -> PrepCases]
  /\ pred = [s \in 1..Batch |-> [t \in 1..NumSteps |->
               <<Sinusoid(1000, tempDF[s].water)[t], AuxPred[Phase4(t)]>>]]
  /\ data = <<>>
  /\ lres = NoCall
  /\ thisData = <<>> /\ pc = "idle" /\ air = <<>> /\ water_pbm = <<>> /\ water_obs = <<>>
  /\ nRegr = <<>> /\ Ar_obs = <<>> /\ delPhi_obs = <<>> /\ Ar_low_obs = <<>>
  /\ Ar_high_obs = <<>> /\ delPhi_low_obs = <<>> /\ delPhi_high_obs = <<>>
  /\ Ar_pbm = <<>> /\ delPhi_pbm = <<>>
  /\ VecIdle

\* lines 283-290: GW_trn_scale and the reshaped training targets, joined
\* with the true values and the weights into the target tensor of the loss
PrepAnnualSignalData ==
  /\ pc = "idle" /\ tempDF # <<>> /\ data = <<>>
  /\ \E extra \in ExtraChannels :
       LET Ar_scale == Standardize([s \in 1..Len(tempDF) |-> tempDF[s].Ar_obs])
           delPhi_scale == Standardize([s \in 1..Len(tempDF) |-> tempDF[s].delPhi_obs])
       IN data' = [s \in 1..Len(tempDF) |-> [t \in 1..NumSteps |->
                     Cell(t, [m2 |-> 100, a2 |-> 100, rest |-> 100],
                          <<Ar_scale[s], delPhi_scale[s], tempDF[s].air_phi, tempDF[s].air_amp>>,
                          extra)]]
  /\ UNCHANGED <<pred, lres, statsVars, vecVars>>

PrepNext ==
  \/ PrepAnnualSignalData
  \/ CallLossGw

SpecPrep == PrepInit /\ [][PrepNext]_vars

(***************************************************************************)
(* Vocabulary of the properties: the unfiltered ratio and shift of a       *)
(* segment, stated from the fitted amplitudes and phases                   *)
(***************************************************************************)
Fitted == pc \in {"derive", "rule1", "rule2", "rule3", "pbm", "table", "done"}
AfterRule1 == pc \in {"rule2", "rule3", "pbm", "table", "done"}
AfterRule2 == pc \in {"rule3", "pbm", "table", "done"}
AfterRule3 == pc \in {"pbm", "table", "done"}

\* water_amp_obs / air_amp is a number (possibly +inf)
RawArDefined(x) ==
  /\ ~water_obs[x].amp.nan
  /\ ~air[x].amp.nan
  /\ ~(water_obs[x].amp.v = 0 /\ air[x].amp.v = 0)
\* (water_amp_obs / air_amp) > 1.1, on the squares: w^2 * 100 > 121 * a^2
RawArAbove(x) == RawArDefined(x) /\ 100 * water_obs[x].amp.v > 121 * air[x].amp.v
RawArWithin(x) == RawArDefined(x) /\ 100 * water_obs[x].amp.v <= 121 * air[x].amp.v
RawDelPhiDefined(x) == ~water_obs[x].phi.nan /\ ~air[x].phi.nan
\* (water_phi_obs - air_phi) * 365 / (2 pi) in 1/3600 day
RawDelPhi(x) == (water_obs[x].phi.v - air[x].phi.v) * 365


\* C1: a segment whose unfiltered Ar_obs is above 1.1 has Ar_obs and delPhi_obs
\* missing as soon as rule (i) has run, whatever its delPhi_obs, and in the table.
C1_ArAboveMaxBothMissing ==
  /\ AfterRule1 =>
       \A x \in Segs : RawArAbove(x) => Ar_obs[x].nan /\ delPhi_obs[x].nan
  /\ pc = "done" =>
       \A x \in Segs : RawArAbove(x) => tempDF[x].Ar_obs.nan /\ tempDF[x].delPhi_obs.nan

\* a segment with Ar_obs above 1.1 and a positive delPhi_obs went through the filters
C1_Witness ==
  /\ pc = "done"
  /\ \E x \in Segs :
       /\ RawArAbove(x)
       /\ RawDelPhiDefined(x)
       /\ RawDelPhi(x) > 0
       /\ tempDF[x].Ar_obs.nan
       /\ tempDF[x].delPhi_obs.nan

\* C2: a segment whose delPhi_obs is below -10 days has Ar_obs and delPhi_obs
\* missing once rule (ii) has run, also when its Ar_obs is at most 1.1.
C2_DelPhiBelowMinBothMissing ==
  /\ AfterRule2 =>
       \A x \in Segs :
         (RawDelPhiDefined(x) /\ RawDelPhi(x) < 0 - 36000)
           => Ar_obs[x].nan /\ delPhi_obs[x].nan
  /\ pc = "done" =>
       \A x \in Segs :
         (RawDelPhiDefined(x) /\ RawDelPhi(x) < 0 - 36000)
           => tempDF[x].Ar_obs.nan /\ tempDF[x].delPhi_obs.nan

C2_Witness ==
  /\ pc = "done"
  /\ \E x \in Segs :
       /\ RawArWithin(x)
       /\ RawDelPhiDefined(x)
       /\ RawDelPhi(x) < 0 - 36000
       /\ tempDF[x].Ar_obs.nan
       /\ tempDF[x].delPhi_obs.nan

\* C3: with Ar_obs a number <= 1.1, a delPhi_obs in [-10, 0] days comes out as
\* exactly 0 and a delPhi_obs > 0 comes out unchanged; Ar_obs comes out as the
\* unfiltered ratio water_amp_obs / air_amp.
C3_ClampKeepsAr ==
  pc = "done" =>
    \A x \in Segs :
      (RawArWithin(x) /\ RawDelPhiDefined(x) /\ RawDelPhi(x) >= 0 - 36000) =>
        /\ tempDF[x].Ar_obs =
             [nan |-> FALSE, n |-> water_obs[x].amp.v, d |-> air[x].amp.v]
        /\ RawDelPhi(x) <= 0 => tempDF[x].delPhi_obs = [nan |-> FALSE, v |-> 0]
        /\ RawDelPhi(x) > 0 => tempDF[x].delPhi_obs = [nan |-> FALSE, v |-> RawDelPhi(x)]

\* one segment clamped from a strictly negative shift, another kept with a positive one
C3_Witness ==
  /\ pc = "done"
  /\ \E x \in Segs :
       /\ RawArWithin(x) /\ RawDelPhiDefined(x)
       /\ RawDelPhi(x) < 0 /\ RawDelPhi(x) >= 0 - 36000
       /\ tempDF[x].delPhi_obs = [nan |-> FALSE, v |-> 0]
       /\ ~tempDF[x].Ar_obs.nan
  /\ \E x \in Segs :
       /\ RawArWithin(x) /\ RawDelPhiDefined(x)
       /\ RawDelPhi(x) > 0
       /\ tempDF[x].delPhi_obs.v > 0
       /\ 100 * tempDF[x].Ar_obs.n > 100 * tempDF[x].Ar_obs.d

\* C4: after the three filters Ar_obs is missing or in (0, 1.1] and delPhi_obs
\* is missing or >= 0, for every pair of air and observed-water fits.
C4_FilteredBounds ==
  AfterRule3 =>
    \A x \in Segs :
      /\ Ar_obs[x].nan \/
           (Ar_obs[x].n > 0 /\ Ar_obs[x].d > 0 /\ 100 * Ar_obs[x].n <= 121 * Ar_obs[x].d)
      /\ delPhi_obs[x].nan \/ delPhi_obs[x].v >= 0

\* a segment with a water amplitude of 0 against a positive air amplitude
C4_Witness ==
  /\ pc = "done"
  /\ \E x \in Segs :
       /\ ~water_obs[x].amp.nan /\ water_obs[x].amp.v = 0
       /\ ~air[x].amp.nan /\ air[x].amp.v > 0
       /\ tempDF[x].Ar_obs.nan
  /\ \E x \in Segs : ~tempDF[x].Ar_obs.nan /\ ~tempDF[x].delPhi_obs.nan

\* observed samples that are not missing and lie within 1..60 degrees C
ObsPlausible(x) ==
  LET c == thisData[x].obs.cnt IN c[1] + c[20] + c[45] + c[46] + c[60]

\* C5: the observed-water fit of a segment is attempted exactly when it has at
\* least 365 non-missing samples within 1..60 degrees C.
C5_FitIffEnoughSamples ==
  \A x \in 1..Len(nRegr) : (nRegr[x] # -1) <=> (ObsPlausible(x) >= 365)

Present == SelectSeq([k \in 1..Len(y_true) |-> k], LAMBDA k : ~y_true[k].nan)
\* the sum of squared errors over them, in 1/10000
PresentSSE ==
  SumSeq([j \in 1..Len(Present) |->
            (y_pred[Present[j]].v - y_true[Present[j]].v) * (y_pred[Present[j]].v - y_true[Present[j]].v)])
PredDefinedWherePresent == \A j \in 1..Len(Present) : ~y_pred[Present[j]].nan

\* C7: rmse is exactly 0 (not NaN) when every position of y_true is missing,
\* whatever y_pred holds; otherwise it is the square root (rounded down to the
\* unit) of the sum of squared errors over the non-missing positions divided by
\* their number.
C7_RmseMasked ==
  vres.op = "rmse" =>
    /\ Len(Present) = 0 => vres.rmse = [nan |-> FALSE, v |-> 0]
    /\ (Len(Present) > 0 /\ PredDefinedWherePresent) =>
         /\ ~vres.rmse.nan
         /\ vres.rmse.v >= 0
         /\ vres.rmse.v * vres.rmse.v * Len(Present) <= PresentSSE
         /\ (vres.rmse.v + 1) * (vres.rmse.v + 1) * Len(Present) > PresentSSE
    /\ (Len(Present) > 0 /\ ~PredDefinedWherePresent) => vres.rmse.nan

\* rmse was called with every y_true missing and a y_pred holding numbers and a NaN
C7_Witness ==
  /\ vres.op = "rmse"
  /\ \A k \in 1..Len(y_true) : y_true[k].nan
  /\ \E k \in 1..Len(y_pred) : ~y_pred[k].nan /\ y_pred[k].v # 0
  /\ \E k \in 1..Len(y_pred) : y_pred[k].nan
  /\ vres.rmse = [nan |-> FALSE, v |-> 0]

\* the non-missing values of y_true
PresentValues == [j \in 1..Len(Present) |-> y_true[Present[j]].v]
OrdinaryMean(s) == SumSeq(s) \div Len(s)
OrdinaryStd(s) ==
  ISqrt(SumSeq([j \in 1..Len(s) |-> (s[j] - OrdinaryMean(s)) * (s[j] - OrdinaryMean(s))])
          \div (Len(s) - 1))

\* C9: with at least 2 values left, mean_masked and std_masked are the mean and
\* the sample standard deviation (n-1) of the non-missing values alone; dev_masked
\* has the input's shape, y - mean where y is present and exactly 0 where it is missing.
C9_MaskedStats ==
  (vres.op = "stats" /\ Len(Present) >= 2) =>
    /\ vres.mean = [nan |-> FALSE, v |-> OrdinaryMean(PresentValues)]
    /\ vres.std = [nan |-> FALSE, v |-> OrdinaryStd(PresentValues)]
    /\ DOMAIN vres.dev = DOMAIN y_true
    /\ \A k \in DOMAIN y_true :
         vres.dev[k] = IF y_true[k].nan
                         THEN [nan |-> FALSE, v |-> 0]
                         ELSE [nan |-> FALSE, v |-> y_true[k].v - OrdinaryMean(PresentValues)]

\* the statistics of a series with a missing value and two different values left
C9_Witness ==
  /\ vres.op = "stats"
  /\ Len(Present) >= 2
  /\ Len(Present) < Len(y_true)
  /\ vres.std.v > 0
  /\ \E k \in DOMAIN y_true : y_true[k].nan /\ vres.dev[k].v = 0

\* the cells of the target tensor, and its number of channels
Cells == {<<s, t>> : s \in 1..Len(data), t \in 1..Len(data[1])}
NumChan == Len(data[1][1])
\* the weight of variable i (0: main, 1: auxiliary) is one of the last two channels
WeightOf(c, i) == data[c[1]][c[2]][NumChan - 1 + i]
TrueOf(c, i) == data[c[1]][c[2]][1 + i]
PredOf(c, i) == pred[c[1]][c[2]][1 + i]
ZeroWeight(c, i) == ~WeightOf(c, i).nan /\ WeightOf(c, i).v = 0
\* the observations of variable i that count
Counted(i) == {c \in Cells : ~ZeroWeight(c, i) /\ ~TrueOf(c, i).nan}

RECURSIVE SumOfSquaredErrors(_, _)
SumOfSquaredErrors(S, i) ==
  IF S = {} THEN 0
  ELSE LET c == CHOOSE x \in S : TRUE
       IN (PredOf(c, i).v - TrueOf(c, i).v) * (PredOf(c, i).v - TrueOf(c, i).v)
          + SumOfSquaredErrors(S \ {c}, i)

\* the tensors with other values at the zero-weight cells of variable i and
\* with the weights of the other variable swapped between zero and non-zero
Disturbed(i) ==
  [s \in 1..Len(data) |-> [t \in 1..Len(data[1]) |-> [k \in 1..NumChan |->
     IF k = 1 + i /\ ZeroWeight(<<s, t>>, i) THEN [nan |-> FALSE, v |-> 9900]
     ELSE IF k = NumChan - i
       THEN (IF ZeroWeight(<<s, t>>, 1 - i) THEN [nan |-> FALSE, v |-> 100]
                                              ELSE [nan |-> FALSE, v |-> 0])
     ELSE data[s][t][k]]]]
DisturbedPred(i) ==
  [s \in 1..Len(pred) |-> [t \in 1..Len(pred[1]) |-> [k \in 1..2 |->
     IF k = 1 + i /\ ZeroWeight(<<s, t>>, i) THEN [nan |-> FALSE, v |-> -5000]
     ELSE pred[s][t][k]]]]

\* C8: in rmse_masked_one_var the cells whose weight for var_idx is 0 add nothing
\* to the squared-error sum or to the count, so other true or predicted values
\* there, or other weights of the other variable, give the same loss.
C8_ZeroWeightExcluded ==
  lres.op = "one_var" =>
    LET i == lres.var_idx
        n == Cardinality(Counted(i))
        sse == SumOfSquaredErrors(Counted(i), i)
    IN /\ ~lres.rmse.nan
       /\ n = 0 => lres.rmse.v = 0
       /\ n > 0 => /\ lres.rmse.v * lres.rmse.v * n <= sse
                   /\ (lres.rmse.v + 1) * (lres.rmse.v + 1) * n > sse
       /\ rmse_masked_one_var(Disturbed(i), DisturbedPred(i), i) = lres.rmse

\* a cell with weight 0 for var_idx, a non-zero weight for the other variable
\* and a prediction error, in a call that returned a positive loss
C8_Witness ==
  /\ lres.op = "one_var"
  /\ lres.rmse.v > 0
  /\ \E c \in Cells :
       /\ ZeroWeight(c, lres.var_idx)
       /\ ~ZeroWeight(c, 1 - lres.var_idx)
       /\ ~TrueOf(c, lres.var_idx).nan
       /\ PredOf(c, lres.var_idx) # TrueOf(c, lres.var_idx)

\* variable i of the target with its zero-weight cells missing, flattened
MaskedTrue(i) ==
  [k \in 1..(Len(data) * Len(data[1])) |->
     LET c == <<((k - 1) \div Len(data[1])) + 1, ((k - 1) % Len(data[1])) + 1>>
     IN IF ZeroWeight(c, i) THEN [nan |-> TRUE, v |-> 0] ELSE TrueOf(c, i)]
FlatPred(i) ==
  [k \in 1..(Len(data) * Len(data[1])) |->
     PredOf(<<((k - 1) \div Len(data[1])) + 1, ((k - 1) % Len(data[1])) + 1>>, i)]

\* the groundwater terms of segment s from channels 2..5 at the first timestep
\* and the sin/cos channels just before the weights (channels counted from 0)
RefGw(s, a) ==
  LET features == [t \in 1..Len(data[s]) |-> <<data[s][t][NumChan - 3], data[s][t][NumChan - 2]>>]
      temp == [t \in 1..Len(data[s]) |->
                 FAdd(FMul(pred[s][t][a.temp_index + 1], a.temp_sd), a.temp_mean)]
      coef == NormalEquation(features, temp)
      fitted == ~coef[2].nan /\ ~coef[3].nan
      Aw == IF fitted THEN [nan |-> FALSE, v |-> ISqrt(coef[2].v * coef[2].v + coef[3].v * coef[3].v)]
            ELSE [nan |-> TRUE, v |-> 0]
      Phiw == IF fitted THEN Phase(coef[2].v, coef[3].v) ELSE [nan |-> TRUE, v |-> 0]
      airPhase == data[s][1][5]
      airAmp == data[s][1][6]
  IN [Ar_obs |-> data[s][1][3],
      delPhi_obs |-> data[s][1][4],
      Ar_pred |-> FDiv(Aw, airAmp),
      delPhi_pred |-> IF Phiw.nan \/ airPhase.nan THEN [nan |-> TRUE, v |-> 0]
                      ELSE [nan |-> FALSE, v |-> ((Phiw.v - airPhase.v) * 3650) \div 360]]

RefLoss(a) ==
  LET gw == [s \in 1..Len(data) |-> RefGw(s, a)]
      main == rmse(MaskedTrue(0), FlatPred(0))
      aux == rmse(MaskedTrue(1), FlatPred(1))
      ar == rmse([s \in 1..Len(data) |-> gw[s].Ar_obs], [s \in 1..Len(data) |-> gw[s].Ar_pred])
      dphi == rmse([s \in 1..Len(data) |-> gw[s].delPhi_obs],
                   [s \in 1..Len(data) |-> gw[s].delPhi_pred])
  IN FAdd(FAdd(FAdd(main, FMul(a.lamb, aux)), FMul(a.lamb2, ar)), FMul(a.lamb3, dphi))

\* C6: the loss of weighted_masked_rmse_gw is rmse(main) + lamb * rmse(aux)
\* + lamb2 * rmse(Ar_obs, Ar_pred) + lamb3 * rmse(delPhi_obs, delPhi_pred) with
\* true values in channels 0 and 1, weights in the last two channels, Ar_obs,
\* delPhi_obs, air phase and air amplitude in channels 2..5 at timestep 0 and
\* sin/cos in the two channels before the weights.
C6_CompositeLoss ==
  lres.op = "gw" => lres.loss = RefLoss(lres.args)

\* a loss with all four terms weighted and a number, on a target with masked cells
C6_Witness ==
  /\ lres.op = "gw"
  /\ lres.args.lamb2.v > 0 /\ lres.args.lamb3.v > 0
  /\ ~lres.loss.nan
  /\ lres.loss.v > 0
  /\ NumChan > 10
  /\ \E c \in Cells : ZeroWeight(c, 0) /\ ~ZeroWeight(c, 1)
  /\ \E s \in 1..Len(data) : ~data[s][1][3].nan

\* both estimators have run on the series of the state
BothRan == lres.op = "prep" /\ vres.op = "calc_amp_phi"
PredSeries == thisData[1].seg_tave_water
OutOfBand(t) == PredSeries[t].v < 100 \/ PredSeries[t].v > 4500

\* C11 as stated: for every sinusoid, also one with values below 1 or above 45
\* degrees C, Aw and Phiw of GW_loss_prep equal the amplitude and the phase of
\* amp_phi with isWater=True on the same series.
C11_AgreeForEverySinusoid ==
  BothRan =>
    /\ ~vres.out.water_amp_pred.nan
    /\ ~lres.gw.Aw[1].nan
    /\ lres.gw.Aw[1].v = ISqrt(vres.out.water_amp_pred.v)
    /\ lres.gw.Phiw[1] = vres.out.water_phi_pred

\* C11 amended: the two agree whenever the samples within 1..45 degrees C still
\* determine the regression; when no sample lies within 1..45 degrees C amp_phi
\* returns a missing amplitude and phase while GW_loss_prep returns numbers.
C11_AgreeWhenBandDetermines ==
  BothRan =>
    /\ (\E t1, t2, t3 \in 1..Len(PredSeries) :
          /\ ~OutOfBand(t1) /\ ~OutOfBand(t2) /\ ~OutOfBand(t3)
          /\ Phase4(t1) # Phase4(t2) /\ Phase4(t1) # Phase4(t3) /\ Phase4(t2) # Phase4(t3))
         => /\ ~vres.out.water_amp_pred.nan
            /\ ~lres.gw.Aw[1].nan
            /\ lres.gw.Aw[1].v = ISqrt(vres.out.water_amp_pred.v)
            /\ lres.gw.Phiw[1] = vres.out.water_phi_pred
    /\ (\A t \in 1..Len(PredSeries) : OutOfBand(t))
         => /\ vres.out.water_amp_pred.nan /\ vres.out.water_phi_pred.nan
            /\ ~lres.gw.Aw[1].nan /\ ~lres.gw.Phiw[1].nan
    /\ ~vres.out.raised

\* the two estimators agree on a sinusoid of amplitude 5 that loses a sample
\* below 1 degree C to the band filter of amp_phi
C11_Witness ==
  /\ BothRan
  /\ \E t \in 1..Len(PredSeries) : PredSeries[t].v < 100
  /\ \E t \in 1..Len(PredSeries) : ~OutOfBand(t)
  /\ lres.gw.Aw[1].v = 500
  /\ vres.out.water_amp_pred = [nan |-> FALSE, v |-> 250000]
  /\ lres.gw.Phiw[1] = vres.out.water_phi_pred

\* water_amp_pbm / air_amp and (water_phi_pbm - air_phi) * 365 / (2 pi), stated
\* from the fits of segment x
PbmArDefined(x) ==
  /\ ~water_pbm[x].amp.nan /\ ~air[x].amp.nan
  /\ ~(water_pbm[x].amp.v = 0 /\ air[x].amp.v = 0)
PbmDelPhiDefined(x) == ~water_pbm[x].phi.nan /\ ~air[x].phi.nan
PbmDelPhi(x) == (water_pbm[x].phi.v - air[x].phi.v) * 365

\* C12: in the table Ar_pbm is water_amp_pbm / air_amp and delPhi_pbm is
\* (water_phi_pbm - air_phi) * 365 / (2 pi), whatever their size: above 1.1,
\* below -10 days or between -10 and 0 days they are kept as computed.
C12_PbmUnfiltered ==
  pc = "done" =>
    \A x \in Segs :
      /\ PbmArDefined(x) =>
           tempDF[x].Ar_pbm = [nan |-> FALSE, n |-> water_pbm[x].amp.v, d |-> air[x].amp.v]
      /\ ~PbmArDefined(x) => tempDF[x].Ar_pbm.nan
      /\ PbmDelPhiDefined(x) => tempDF[x].delPhi_pbm = [nan |-> FALSE, v |-> PbmDelPhi(x)]
      /\ ~PbmDelPhiDefined(x) => tempDF[x].delPhi_pbm.nan

\* a table with an Ar_pbm above 1.1 and a delPhi_pbm below -10 days, both kept
C12_Witness ==
  /\ pc = "done"
  /\ \E x \in Segs :
       /\ ~tempDF[x].Ar_pbm.nan
       /\ 100 * tempDF[x].Ar_pbm.n > 121 * tempDF[x].Ar_pbm.d
       /\ ~tempDF[x].delPhi_pbm.nan
  /\ \E x \in Segs :
       /\ ~tempDF[x].delPhi_pbm.nan
       /\ tempDF[x].delPhi_pbm.v < 0 - 36000
       /\ ~tempDF[x].Ar_pbm.nan

\* C13: a second call of annual_temp_stats on the same dataset builds the table
\* the first call built, and no step of either call changes the dataset.
C13_SecondCallSameTable ==
  [][/\ thisData' = thisData
     /\ (pc = "table" /\ tempDF # <<>>) => tempDF' = tempDF]_vars

\* the second call has reached the building of its table on a dataset whose
\* observed series has samples that the 1-60 degree filter drops
C13_Witness ==
  /\ pc = "table"
  /\ tempDF # <<>>
  /\ \E x \in Segs :
       /\ thisData[x].obs.cnt[61] > 0
       /\ ~water_obs[x].amp.nan
       /\ ~tempDF[x].water_amp_obs.nan
  /\ \E x \in Segs : thisData[x].pbm.cnt[0] > 0

\* the record of a segment computed from the three series d of that segment alone
RecordOfSeries(id, d) ==
  LET a == amp_phi(d.air, FALSE).fit
      p == amp_phi(d.pbm, TRUE).fit
      o == ObsFit(d.obs).fit
      ar == Div(o.amp, a.amp)
      dp == Shift(o.phi, a.phi)
      ar1 == IF LeqArMax(ar) THEN ar ELSE [nan |-> TRUE, n |-> 0, d |-> 1]
      dp1 == IF LeqArMax(ar) THEN dp ELSE [nan |-> TRUE, v |-> 0]
      ar2 == IF GeqDelPhiMin(dp1) THEN ar1 ELSE [nan |-> TRUE, n |-> 0, d |-> 1]
      dp2 == IF GeqDelPhiMin(dp1) THEN dp1 ELSE [nan |-> TRUE, v |-> 0]
      dp3 == IF dp2.nan THEN dp2 ELSE IF dp2.v > 0 THEN dp2 ELSE [nan |-> FALSE, v |-> 0]
  IN [seg_id_nat |-> id,
      air_amp |-> a.amp, air_phi |-> a.phi,
      water_amp_obs |-> o.amp, water_phi_obs |-> o.phi,
      Ar_obs |-> ar2, delPhi_obs |-> dp3,
      Ar_low_obs |-> Div(o.amp_low, a.amp_high), Ar_high_obs |-> Div(o.amp_high, a.amp_low),
      delPhi_low_obs |-> Shift(o.phi_low, a.phi_high),
      delPhi_high_obs |-> Shift(o.phi_high, a.phi_low),
      water_amp_pbm |-> p.amp, water_phi_pbm |-> p.phi,
      Ar_pbm |-> Div(p.amp, a.amp), delPhi_pbm |-> Shift(p.phi, a.phi)]

LeastAbs(lo, hi) == IF lo <= 0 /\ 0 <= hi THEN 0 ELSE IF Abs(lo) <= Abs(hi) THEN Abs(lo) ELSE Abs(hi)
GreatestAbs(lo, hi) == IF Abs(lo) >= Abs(hi) THEN Abs(lo) ELSE Abs(hi)
\* the square of the least and of the greatest sqrt(a^2 + b^2) over the
\* coefficients within the confidence intervals of series s
LeastAmpSq(s) ==
  LeastAbs(s.ols[1] - s.hw, s.ols[1] + s.hw) * LeastAbs(s.ols[1] - s.hw, s.ols[1] + s.hw)
  + LeastAbs(s.ols[2] - s.hw, s.ols[2] + s.hw) * LeastAbs(s.ols[2] - s.hw, s.ols[2] + s.hw)
GreatestAmpSq(s) ==
  GreatestAbs(s.ols[1] - s.hw, s.ols[1] + s.hw) * GreatestAbs(s.ols[1] - s.hw, s.ols[1] + s.hw)
  + GreatestAbs(s.ols[2] - s.hw, s.ols[2] + s.hw) * GreatestAbs(s.ols[2] - s.hw, s.ols[2] + s.hw)
\* the three fits of segment x next to the series they were made on
FitsOf(x) ==
  {<<air[x], thisData[x].air>>, <<water_pbm[x], thisData[x].pbm>>, <<water_obs[x], thisData[x].obs>>}

\* C15: for every fit that succeeded, amp_low and amp_high are the least and
\* the greatest amplitude over the coefficients within their confidence
\* intervals, and amp_low <= amp <= amp_high.
C15_AmpBoundsBracket ==
  \A x \in 1..Len(air) : \A f \in FitsOf(x) :
    ~f[1].amp.nan =>
      /\ f[1].amp_low.v = LeastAmpSq(f[2])
      /\ f[1].amp_high.v = GreatestAmpSq(f[2])
      /\ f[1].amp_low.v <= f[1].amp.v
      /\ f[1].amp.v <= f[1].amp_high.v

\* the non-missing positions of sample i of y_true, and their values
PresentIn(i) == SelectSeq([t \in 1..Len(y_true[i]) |-> t], LAMBDA t : ~y_true[i][t].nan)
OwnValues(i) == [j \in 1..Len(PresentIn(i)) |-> y_true[i][PresentIn(i)[j]].v]
\* the squared errors of sample i at its non-missing positions
OwnSquaredErrors(i) ==
  SumSeq([j \in 1..Len(PresentIn(i)) |->
            (y_pred[i][PresentIn(i)[j]].v - OwnValues(i)[j])
              * (y_pred[i][PresentIn(i)[j]].v - OwnValues(i)[j])])
\* the squared deviations (with the small value added) of the non-missing
\* values of sample i from their mean
OwnSquaredDeviations(i) ==
  SumSeq([j \in 1..Len(PresentIn(i)) |->
            (OwnValues(i)[j] - OrdinaryMean(OwnValues(i)) + 10)
              * (OwnValues(i)[j] - OrdinaryMean(OwnValues(i)) + 10)])
OwnNse(i) == 100 - ((OwnSquaredErrors(i) * 100) \div OwnSquaredDeviations(i))

\* C16: sample_avg_nse sums, for each sample, the squared errors and the squared
\* deviations of that sample's non-missing true values only, and returns the
\* average of the samples' scores.
C16_SampleAvgNse ==
  (vres.op = "sample_avg_nse" /\ \A i \in 1..Len(y_true) : Len(PresentIn(i)) >= 2) =>
    /\ \A i \in 1..Len(y_true) :
         /\ vres.out.numerator_samplewise[i] = [nan |-> FALSE, v |-> OwnSquaredErrors(i)]
         /\ vres.out.denomin_samplewise[i] = [nan |-> FALSE, v |-> OwnSquaredDeviations(i)]
    /\ vres.out.nse_samplewise_avg =
         [nan |-> FALSE, v |-> SumSeq([i \in 1..Len(y_true) |-> OwnNse(i)]) \div Len(y_true)]

\* the loss was called with the temperature in the first output channel and
\* left unscaled, so that the predicted temperature is the observed signal
PerfectSignal ==
  /\ lres.op = "gw"
  /\ tempDF # <<>>
  /\ lres.args.temp_index = 0
  /\ lres.args.temp_mean = [nan |-> FALSE, v |-> 0]
  /\ lres.args.temp_sd = [nan |-> FALSE, v |-> 100]

\* C18: on the training targets of prep_annual_signal_data a prediction whose
\* temperature signal is the observed one gives rmse_Ar = 0 and rmse_delPhi = 0:
\* the loss is rmse_main + lamb * rmse_aux alone.
C18_GwTermsSameScale ==
  PerfectSignal =>
    lres.loss = FAdd(rmse_masked_one_var(data, pred, 0),
                     FMul(lres.args.lamb, rmse_masked_one_var(data, pred, 1)))

\* C17: once rules (i) and (ii) have run, and in the table, Ar_obs of a segment
\* is missing exactly when its delPhi_obs is missing.
C17_MissingTogether ==
  /\ AfterRule2 => \A x \in Segs : Ar_obs[x].nan <=> delPhi_obs[x].nan
  /\ pc = "done" => \A x \in Segs : tempDF[x].Ar_obs.nan <=> tempDF[x].delPhi_obs.nan

\* a segment whose unfiltered ratio is a number (0) and whose shift is missing
\* has both missing in the table, next to a segment that has both
C17_Witness ==
  /\ pc = "done"
  /\ \E x \in Segs :
       /\ RawArDefined(x) /\ RawArWithin(x)
       /\ ~RawDelPhiDefined(x)
       /\ tempDF[x].Ar_obs.nan /\ tempDF[x].delPhi_obs.nan
  /\ \E x \in Segs : ~tempDF[x].Ar_obs.nan /\ ~tempDF[x].delPhi_obs.nan

\* C19: a segment whose observed-water fit is not missing had its regression
\* fitted on at least 365 samples.
C19_FittedOnEnoughSamples ==
  \A x \in 1..Len(water_obs) : ~water_obs[x].amp.nan => nRegr[x] >= 365

\* the steps that apply the plausibility filters
Filtering == pc \in {"rule1", "rule2", "rule3"}

\* C20: the filters leave the fits, the low and high ratios and shifts and the
\* process-model values as they were computed, and the table carries them
\* unchanged, also for a record whose Ar_obs and delPhi_obs were discarded.
C20_FiltersTouchOnlyArAndDelPhi ==
  [][/\ Filtering =>
          /\ air' = air /\ water_obs' = water_obs /\ water_pbm' = water_pbm
          /\ Ar_low_obs' = Ar_low_obs /\ Ar_high_obs' = Ar_high_obs
          /\ delPhi_low_obs' = delPhi_low_obs /\ delPhi_high_obs' = delPhi_high_obs
          /\ Ar_pbm' = Ar_pbm /\ delPhi_pbm' = delPhi_pbm
     /\ pc = "table" =>
          \A x \in Segs :
            /\ tempDF'[x].water_amp_obs = water_obs[x].amp
            /\ tempDF'[x].water_phi_obs = water_obs[x].phi
            /\ tempDF'[x].air_amp = air[x].amp /\ tempDF'[x].air_phi = air[x].phi
            /\ tempDF'[x].water_amp_pbm = water_pbm[x].amp
            /\ tempDF'[x].water_phi_pbm = water_pbm[x].phi
            /\ (~water_obs[x].amp_low.nan /\ ~air[x].amp_high.nan /\ air[x].amp_high.v > 0) =>
                 tempDF'[x].Ar_low_obs =
                   [nan |-> FALSE, n |-> water_obs[x].amp_low.v, d |-> air[x].amp_high.v]
            /\ (~water_obs[x].amp_high.nan /\ ~air[x].amp_low.nan /\ air[x].amp_low.v > 0) =>
                 tempDF'[x].Ar_high_obs =
                   [nan |-> FALSE, n |-> water_obs[x].amp_high.v, d |-> air[x].amp_low.v]
            /\ (~water_obs[x].phi_low.nan /\ ~air[x].phi_high.nan) =>
                 tempDF'[x].delPhi_low_obs =
                   [nan |-> FALSE, v |-> (water_obs[x].phi_low.v - air[x].phi_high.v) * 365]
            /\ (~water_obs[x].phi_high.nan /\ ~air[x].phi_low.nan) =>
                 tempDF'[x].delPhi_high_obs =
                   [nan |-> FALSE, v |-> (water_obs[x].phi_high.v - air[x].phi_low.v) * 365]
    ]_vars

\* a record discarded by rule (i) that still carries its low and high bounds,
\* one of them a negative shift
C20_Witness ==
  /\ pc = "done"
  /\ \E x \in Segs :
       /\ RawArAbove(x)
       /\ tempDF[x].Ar_obs.nan /\ tempDF[x].delPhi_obs.nan
       /\ ~tempDF[x].Ar_low_obs.nan /\ ~tempDF[x].Ar_high_obs.nan
       /\ ~tempDF[x].delPhi_low_obs.nan /\ ~tempDF[x].delPhi_high_obs.nan
       /\ ~tempDF[x].water_amp_obs.nan
  /\ \E x \in Segs : ~tempDF[x].delPhi_low_obs.nan /\ tempDF[x].delPhi_low_obs.v < 0

====
